---- MODULE Spec2Model ----
(***************************************************************************)
(* Model of the job-tracking backend of src/src/UploadDataset.jsx          *)
(* (lines 181-387): the in-memory job store `jobs`, the upload handler     *)
(* POST /api/upload (multer disk storage, content-store call, workflow     *)
(* trigger), the callback handler POST /api/callback and the status query  *)
(* GET /api/status/:jobId.                                                 *)
(*                                                                         *)
(* The server is one Node.js process: a handler runs without interruption  *)
(* until it awaits.  The upload handler awaits once, on the content-store  *)
(* call (line 276), so it is two atomic steps, UploadHandle and            *)
(* UploadResume; multer has written the file to disk before the handler    *)
(* starts (UploadReceive).  The other handlers are one atomic step each.   *)
(***************************************************************************)
EXTENDS Integers, Sequences, FiniteSets, TLC

VARIABLES
    jobs,       \* own properties of the object `jobs` (line 200): job id -> record
    objProto,   \* Object.prototype, which `jobs` and every parsed JSON body inherit from
    uploads,    \* the upload requests received so far, in order of arrival
    disk,       \* the directory uploads/: file name -> bytes
    lastResp    \* the response sent by the latest handler step

vars == <<jobs, objProto, uploads, disk, lastResp>>

----------------------------------------------------------------------------
\* Bounds of the model.

MaxJobs == 2        \* upload requests received
MaxTime == 1        \* largest value Date.now() returns

----------------------------------------------------------------------------
\* Values.

Undefined  == "undefined"       \* the JavaScript value undefined (a missing property)
NoProgress == -1                \* `progress` missing
NoResult   == << >>             \* `result` missing
NoFile     == "nofile"          \* no file of that name in uploads/
NoObject   == << >>             \* no content-store call in flight

UuidPool == << "uuid-1", "uuid-2", "uuid-3", "uuid-4" >>

\* uuidv4(): the i-th request gets an identifier no other request gets.
Uuid(i) == UuidPool[i]

JobIds == { Uuid(i) : i \in 1..MaxJobs }

FileNames == { "data.csv" }
Emails    == { Undefined, "a@x.io" }

\* Values a caller may send as jobId in a callback body or in the status path.
ProtoKey   == "__proto__"
StrayKeys  == { "nosuch", ProtoKey }
LookupKeys == JobIds \cup StrayKeys

Statuses == { "completed", "error", "cancelled" }
Metrics  == { Undefined, "0.92" }
Messages == { "done" }

\* Bodies of POST /api/callback: {jobId, status?, display_metric?, message?}.
Payloads ==
    [ jobId : LookupKeys \cup {Undefined},
      status : Statuses \cup {Undefined},
      display_metric : Metrics,
      message : Messages ]

StorageError == "Supabase upload failed"
ReadError    == "ENOENT"

----------------------------------------------------------------------------
\* Records.

\* An object with none of the fields a handler writes (also Object.prototype at start).
EmptyObject ==
    [ id |-> Undefined, status |-> Undefined, progress |-> NoProgress,
      email |-> Undefined, message |-> Undefined, result |-> NoResult ]

\* The object literal of lines 262-267.
InitJob(jobId, email) ==
    [ EmptyObject EXCEPT !.id = jobId, !.status = "uploading",
                         !.progress = 10, !.email = email ]

\* Lines 292-293 with the writes skipped once a callback moved the job on.
SetTrainingIfUploading(job) ==
    IF job.status = "uploading"
    THEN [ job EXCEPT !.status = "training", !.progress = 40 ]
    ELSE job

\* Lines 292-293.
SetTraining(job) == [ job EXCEPT !.status = "training", !.progress = 40 ]

\* Lines 337-338 without the failure message.
SetErrorNoMessage(job, msg) == [ job EXCEPT !.status = "error" ]

\* Lines 337-338.
SetError(job, msg) == [ job EXCEPT !.status = "error", !.message = msg ]

\* Truthiness of a value read from `jobs` or from a request body.
Truthy(v) == v # Undefined

\* Property read req.body.status (line 354): the body is a plain object, so
\* a missing own property is read from Object.prototype.
BodyStatus(p, proto) == IF p.status # Undefined THEN p.status ELSE proto.status

\* status || "completed" (line 357).
ReportedStatus(p, proto) ==
    IF Truthy(BodyStatus(p, proto)) THEN BodyStatus(p, proto) ELSE "completed"

\* Lines 357-359 with a second callback for a finished job flagged as an error.
ApplyCallbackOnce(obj, p, proto) ==
    [ obj EXCEPT !.status = IF obj.progress = 100 THEN "error"
                            ELSE ReportedStatus(p, proto),
                 !.progress = 100,
                 !.result = << p.display_metric, p.message >> ]

\* Lines 357-359 with the result attached only when a metric is reported.
ApplyCallbackMetricOnly(obj, p, proto) ==
    [ obj EXCEPT !.status = ReportedStatus(p, proto),
                 !.progress = 100,
                 !.result = IF Truthy(p.display_metric)
                            THEN << p.display_metric, p.message >> ELSE @ ]

\* Lines 357-359 applied to the object found under jobs[jobId].
ApplyCallback(obj, p, proto) ==
    [ obj EXCEPT !.status = ReportedStatus(p, proto),
                 !.progress = 100,
                 !.result = << p.display_metric, p.message >> ]

\* jobs[key] (lines 221, 356): what the property read yields.
\*   "job"    an own entry of jobs
\*   "proto"  Object.prototype itself (key "__proto__")
\*   "none"   undefined
LookupKind(key, js) ==
    IF key \in DOMAIN js THEN "job"
    ELSE IF key = ProtoKey THEN "proto"
    ELSE "none"

----------------------------------------------------------------------------
\* Responses, as the latest handler step sent them.

NoResp == [ kind |-> "none", key |-> Undefined, code |-> 0, body |-> EmptyObject ]

Resp(kind, key, code, body) ==
    [ kind |-> kind, key |-> key, code |-> code, body |-> body ]

\* An upload request as multer hands it to the handler.
NewUpload(hasFile, name, email) ==
    [ pc |-> "parsed", hasFile |-> hasFile, name |-> name, email |-> email,
      buf |-> NoFile, objName |-> NoObject, code |-> 0, trigger |-> "none" ]

\* The request once the handler has responded, were the trigger dispatched
\* on every path of the handler.
RespondedAlwaysTrigger(u, code, trigger) ==
    [ pc |-> "responded", hasFile |-> u.hasFile, name |-> u.name, email |-> u.email,
      buf |-> NoFile, objName |-> NoObject, code |-> code, trigger |-> "pending" ]

\* The request once the handler has responded: its locals are gone.
Responded(u, code, trigger) ==
    [ pc |-> "responded", hasFile |-> u.hasFile, name |-> u.name, email |-> u.email,
      buf |-> NoFile, objName |-> NoObject, code |-> code, trigger |-> trigger ]

Init ==
    /\ jobs = << >>
    /\ objProto = EmptyObject
    /\ uploads = << >>
    /\ disk = [ n \in FileNames |-> NoFile ]
    /\ lastResp = NoResp

----------------------------------------------------------------------------
\* POST /api/upload

\* multer (lines 235-245): a request arrives; its file, when it has one, is
\* written to uploads/<originalname> before the handler runs.
UploadReceive(hasFile, name, email) ==
    /\ Len(uploads) < MaxJobs
    /\ uploads' = Append(uploads, NewUpload(hasFile, name, email))
    /\ disk' = IF hasFile THEN [ disk EXCEPT ![name] = Uuid(Len(uploads) + 1) ]
                          ELSE disk
    /\ UNCHANGED <<jobs, objProto, lastResp>>

\* The request passes both checks of lines 250-259.
Validated(u) == u.hasFile /\ Truthy(u.email)

\* Lines 247-280: the handler up to the await on the content store, and the
\* catch block (lines 332-346) when readFileSync throws.  t is Date.now().
UploadHandle(i, t) ==
    /\ i \in 1..Len(uploads)
    /\ uploads[i].pc = "parsed"
    /\ LET u     == uploads[i]
           jobId == Uuid(i)
       IN
        IF ~Validated(u)
        THEN /\ uploads' = [ uploads EXCEPT ![i] = Responded(u, 400, "none") ]
             /\ lastResp' = Resp("upload", jobId, 400, EmptyObject)
             /\ UNCHANGED jobs
        ELSE IF disk[u.name] = NoFile
        THEN /\ jobs' = (jobId :> SetError(InitJob(jobId, u.email), ReadError)) @@ jobs
             /\ uploads' = [ uploads EXCEPT ![i] = Responded(u, 500, "none") ]
             /\ lastResp' = Resp("upload", jobId, 500, EmptyObject)
        ELSE /\ jobs' = (jobId :> InitJob(jobId, u.email)) @@ jobs
             /\ uploads' = [ uploads EXCEPT ![i].pc = "awaiting",
                                            ![i].buf = disk[u.name],
                                            ![i].objName = << t, u.name >> ]
             /\ UNCHANGED lastResp
    /\ UNCHANGED <<objProto, disk>>

\* Lines 282-331 and the catch block 332-346: the handler after the await.
\* ok: the content store accepted the object (lines 287-331); otherwise it
\* reported an error or the call rejected (lines 282-285, 332-346).
UploadResume(i, ok) ==
    /\ i \in 1..Len(uploads)
    /\ uploads[i].pc = "awaiting"
    /\ LET u     == uploads[i]
           jobId == Uuid(i)
       IN
        IF ok
        THEN /\ jobs' = [ jobs EXCEPT ![jobId] = SetTraining(@) ]
             /\ disk' = [ disk EXCEPT ![u.name] = NoFile ]
             /\ uploads' = [ uploads EXCEPT ![i] = Responded(u, 200, "pending") ]
             /\ lastResp' = Resp("upload", jobId, 200, EmptyObject)
        ELSE /\ jobs' = [ jobs EXCEPT ![jobId] = SetError(@, StorageError) ]
             /\ uploads' = [ uploads EXCEPT ![i] = Responded(u, 500, "none") ]
             /\ lastResp' = Resp("upload", jobId, 500, EmptyObject)
             /\ UNCHANGED disk
    /\ UNCHANGED objProto

\* Lines 319-325 with a failed dispatch marking the job as failed, which the
\* comment of lines 323-324 considers.
TriggerSettleRollback(i, ok) ==
    /\ i \in 1..Len(uploads)
    /\ uploads[i].trigger = "pending"
    /\ uploads' = [ uploads EXCEPT ![i].trigger = IF ok THEN "sent" ELSE "failed" ]
    /\ jobs' = IF ok THEN jobs
               ELSE [ jobs EXCEPT ![Uuid(i)] = SetError(@, "trigger failed") ]
    /\ UNCHANGED <<objProto, disk, lastResp>>

\* Lines 319-325: the trigger's promise settles, fulfilled (ok) or rejected
\* (a failure or the 10 s timeout); both branches only log.
TriggerSettle(i, ok) ==
    /\ i \in 1..Len(uploads)
    /\ uploads[i].trigger = "pending"
    /\ uploads' = [ uploads EXCEPT ![i].trigger = IF ok THEN "sent" ELSE "failed" ]
    /\ UNCHANGED <<jobs, objProto, disk, lastResp>>

----------------------------------------------------------------------------
\* POST /api/callback (lines 351-367)

\* The guard of line 356.
CallbackFinds(p, js) == Truthy(p.jobId) /\ LookupKind(p.jobId, js) # "none"

\* The store after the handler's writes, were line 356 to create the entry
\* it does not find.
CallbackJobsUpsert(p, js, proto) ==
    IF CallbackFinds(p, js) /\ LookupKind(p.jobId, js) = "job"
    THEN [ js EXCEPT ![p.jobId] = ApplyCallback(@, p, proto) ]
    ELSE IF Truthy(p.jobId) /\ LookupKind(p.jobId, js) = "none"
    THEN (p.jobId :> ApplyCallback(EmptyObject, p, proto)) @@ js
    ELSE js

\* The store after the handler's writes, were line 356-359 to write every
\* entry instead of the one the body names.
CallbackJobsBroadcast(p, js, proto) ==
    IF CallbackFinds(p, js) /\ LookupKind(p.jobId, js) = "job"
    THEN [ j \in DOMAIN js |-> ApplyCallback(js[j], p, proto) ]
    ELSE js

\* The store after the handler's writes.
CallbackJobs(p, js, proto) ==
    IF CallbackFinds(p, js) /\ LookupKind(p.jobId, js) = "job"
    THEN [ js EXCEPT ![p.jobId] = ApplyCallback(@, p, proto) ]
    ELSE js

\* Object.prototype after the handler's writes.
CallbackProto(p, js, proto) ==
    IF CallbackFinds(p, js) /\ LookupKind(p.jobId, js) = "proto"
    THEN ApplyCallback(proto, p, proto)
    ELSE proto

Callback(p) ==
    /\ jobs' = CallbackJobs(p, jobs, objProto)
    /\ objProto' = CallbackProto(p, jobs, objProto)
    /\ lastResp' = Resp("callback", Undefined, 200, EmptyObject)
    /\ UNCHANGED <<uploads, disk>>

----------------------------------------------------------------------------
\* GET /api/status/:jobId (lines 220-226)

\* What res.json(job) serialises: the own enumerable properties of the value.
StatusResponse(key, js, proto) ==
    IF LookupKind(key, js) = "job" THEN Resp("status", key, 200, js[key])
    ELSE IF LookupKind(key, js) = "proto" THEN Resp("status", key, 200, proto)
    ELSE Resp("status", key, 404, EmptyObject)

StatusQuery(key) ==
    /\ lastResp' = StatusResponse(key, jobs, objProto)
    /\ UNCHANGED <<jobs, objProto, uploads, disk>>

----------------------------------------------------------------------------

Next ==
    \/ \E hasFile \in BOOLEAN, name \in FileNames, email \in Emails :
          UploadReceive(hasFile, name, email)
    \/ \E i \in 1..MaxJobs, t \in 0..MaxTime : UploadHandle(i, t)
    \/ \E i \in 1..MaxJobs, ok \in BOOLEAN : UploadResume(i, ok)
    \/ \E i \in 1..MaxJobs, ok \in BOOLEAN : TriggerSettle(i, ok)
    \/ \E p \in Payloads : Callback(p)
    \/ \E key \in LookupKeys : StatusQuery(key)

Spec == Init /\ [][Next]_vars

----------------------------------------------------------------------------
\* Properties.

Terminal == { "completed", "error" }

\* The upload requests that passed validation and whose handler has run
\* past line 259.
Accepted == { i \in 1..Len(uploads) : Validated(uploads[i]) /\ uploads[i].pc # "parsed" }

\* The status a callback body reports: its own `status`, or `completed`
\* when it carries none.
Reported(p) == IF p.status # Undefined THEN p.status ELSE "completed"

\* C1: once a job's status is `completed` or `error`, no step of any handler
\* changes it.
C1_TerminalAbsorbing ==
    [][ \A j \in DOMAIN jobs :
           jobs[j].status \in Terminal => jobs'[j].status = jobs[j].status ]_vars

\* C2: when the upload response of a validated upload has just been sent,
\* the registry holds the job's entry, with status `training` after a
\* success response and `error` after a server-error response.
C2_EntryAtResponse ==
    (lastResp.kind = "upload" /\ lastResp.code # 400) =>
        /\ lastResp.code \in { 200, 500 }
        /\ lastResp.key \in DOMAIN jobs
        /\ jobs[lastResp.key].status =
              (IF lastResp.code = 200 THEN "training" ELSE "error")

\* C2 witness: a success response sent for a job that a callback reached
\* while its handler was suspended on the content store.
C2_Witness ==
    /\ lastResp.kind = "upload"
    /\ lastResp.code = 200
    /\ lastResp.key \in DOMAIN jobs
    /\ jobs[lastResp.key].result # NoResult

\* C3: the registry's entries are exactly the job ids of the upload requests
\* that passed validation, one each; a rejected upload is answered 400.
C3_OneEntryPerValidated ==
    /\ DOMAIN jobs = { Uuid(i) : i \in Accepted }
    /\ Cardinality(DOMAIN jobs) = Cardinality(Accepted)
    /\ \A i \in 1..Len(uploads) :
          (~Validated(uploads[i]) /\ uploads[i].pc = "responded")
              => (uploads[i].code = 400 /\ Uuid(i) \notin DOMAIN jobs)

\* C3 witness: one upload rejected, another accepted, and callbacks for a
\* stray id and for "__proto__" processed since.
C3_Witness ==
    /\ \E i \in 1..Len(uploads) : uploads[i].code = 400
    /\ \E i \in 1..Len(uploads) : uploads[i].code = 200
    /\ objProto.status # Undefined
    /\ lastResp.kind = "callback"

\* C4: a callback whose jobId is absent or names no entry responds success
\* and changes nothing a status query can observe.
C4_StrayCallbackNoEffect ==
    [][ \A p \in Payloads :
           (p.jobId \notin DOMAIN jobs /\ Callback(p)) =>
              /\ lastResp'.code = 200
              /\ jobs' = jobs
              /\ \A key \in LookupKeys :
                    StatusResponse(key, jobs', objProto')
                       = StatusResponse(key, jobs, objProto) ]_vars

\* C5: for every existing job, in whatever state it is, and every callback
\* body, processing the body twice leaves the registry as processing it
\* once does; a callback is answered with success.
C5_CallbackIdempotent ==
    /\ \A p \in Payloads :
          p.jobId \in DOMAIN jobs =>
             LET once  == CallbackJobs(p, jobs, objProto)
                 proto == CallbackProto(p, jobs, objProto)
             IN  /\ CallbackJobs(p, once, proto) = once
                 /\ CallbackProto(p, once, proto) = proto
    /\ lastResp.kind = "callback" => lastResp.code = 200

\* C5 witness: a callback has just been processed for a job that already
\* was in a terminal state with a failure message.
C5_Witness ==
    /\ lastResp.kind = "callback"
    /\ \E j \in DOMAIN jobs :
          /\ jobs[j].result # NoResult
          /\ jobs[j].message # Undefined

\* C6: a callback for an existing job leaves the record with the reported
\* status (`completed` when the body carries none), progress 100 and the
\* body's display_metric and message as result, and responds success.
C6_CallbackSetsRecord ==
    [][ \A p \in Payloads :
           (lastResp'.kind = "callback" /\ p.jobId \in DOMAIN jobs /\ Callback(p)) =>
              /\ jobs'[p.jobId].status = Reported(p)
              /\ jobs'[p.jobId].progress = 100
              /\ jobs'[p.jobId].result = << p.display_metric, p.message >>
              /\ lastResp'.code = 200 ]_vars

\* C7: a job's `result` becomes present exactly in the steps that process a
\* callback reporting success (status `completed` or none) for its id, and
\* stays present afterwards.
C7_ResultIffSuccessCallback ==
    [][ \A j \in DOMAIN jobs' :
           LET had == j \in DOMAIN jobs /\ jobs[j].result # NoResult
               success == lastResp'.kind = "callback" /\
                          \E p \in Payloads :
                             /\ p.jobId = j
                             /\ Reported(p) = "completed"
                             /\ Callback(p)
           IN  (jobs'[j].result # NoResult) <=> (had \/ success) ]_vars

\* C8: no status query returns a record with status `completed` and no
\* `result`.
C8_CompletedHasResult ==
    (lastResp.kind = "status" /\ lastResp.body.status = "completed")
        => lastResp.body.result # NoResult

\* C8 witness: a status query returned a `completed` record of a job whose
\* upload handler was still suspended on the content store.
C8_Witness ==
    /\ lastResp.kind = "status"
    /\ lastResp.body.status = "completed"
    /\ \E i \in 1..Len(uploads) :
          uploads[i].pc = "awaiting" /\ lastResp.key = Uuid(i)

\* C9: no status query returns a record with status `error` and a `result`.
C9_ErrorHasNoResult ==
    (lastResp.kind = "status" /\ lastResp.key \in DOMAIN jobs
                              /\ lastResp.body.status = "error")
        => lastResp.body.result = NoResult

\* C10: no step lowers the `progress` of a job.
C10_ProgressMonotone ==
    [][ \A j \in DOMAIN jobs : jobs'[j].progress >= jobs[j].progress ]_vars

C12_LocalCopyRemoved ==
    \A i \in 1..Len(uploads) :
       (uploads[i].hasFile /\ uploads[i].pc = "responded")
           => disk[uploads[i].name] # Uuid(i)

\* C13: the upload's success response has been sent while the trigger is
\* still pending, and the step in which the trigger settles, fulfilled or
\* rejected, changes neither a response already given nor any record.
C13_FireAndForget ==
    /\ [] (\A i \in 1..Len(uploads) :
              uploads[i].trigger # "none" =>
                 (uploads[i].pc = "responded" /\ uploads[i].code = 200))
    /\ [][ \A i \in 1..Len(uploads) :
              (uploads[i].trigger = "pending" /\ uploads'[i].trigger # "pending") =>
                 /\ jobs' = jobs
                 /\ lastResp' = lastResp
                 /\ uploads'[i].code = uploads[i].code
                 /\ uploads'[i].pc = uploads[i].pc ]_vars

\* C13 witness: the trigger failed after the success response, and the job
\* is still in `training`.
C13_Witness ==
    \E i \in 1..Len(uploads) :
       /\ uploads[i].trigger = "failed"
       /\ uploads[i].code = 200
       /\ jobs[Uuid(i)].status = "training"

\* C14: every registry entry's status is one of `uploading`, `training`,
\* `completed`, `error`.
C14_StatusInDomain ==
    \A j \in DOMAIN jobs :
       jobs[j].status \in { "uploading", "training", "completed", "error" }

\* C15: a status query leaves the registry unchanged, and for every id a
\* caller can put in the path it returns the current record when an upload
\* created that id and a 404 otherwise.
C15_StatusQueryReadOnly ==
    /\ [] (\A key \in LookupKeys :
              StatusResponse(key, jobs, objProto) =
                 (IF key \in DOMAIN jobs
                  THEN Resp("status", key, 200, jobs[key])
                  ELSE Resp("status", key, 404, EmptyObject)))
    /\ [][ \A key \in LookupKeys :
              StatusQuery(key) => (jobs' = jobs /\ objProto' = objProto) ]_vars

\* C16: no two uploads have a content-store call in flight under the same
\* object name.
C16_DistinctObjectNames ==
    \A i, j \in 1..Len(uploads) :
       (i # j /\ uploads[i].pc = "awaiting" /\ uploads[j].pc = "awaiting")
           => uploads[i].objName # uploads[j].objName

\* C17: while a validated upload's content-store call is in flight and after
\* it, a status query finds the job's record; the trigger is dispatched once,
\* in the step that sets the status to `training` after the content store
\* succeeded, and never for a rejected upload or a failed content-store call.
C17_RecordBeforeStoreTriggerOnce ==
    /\ [] (\A i \in 1..Len(uploads) :
              /\ (uploads[i].pc = "awaiting" \/ uploads[i].code \in { 200, 500 }) =>
                    /\ Uuid(i) \in DOMAIN jobs
                    /\ StatusResponse(Uuid(i), jobs, objProto)
                          = Resp("status", Uuid(i), 200, jobs[Uuid(i)])
              /\ uploads[i].pc # "responded" => uploads[i].trigger = "none"
              /\ uploads[i].code \in { 400, 500 } => uploads[i].trigger = "none"
              /\ uploads[i].code = 200 => uploads[i].trigger # "none")
    /\ [][ \A i \in 1..Len(uploads) :
              /\ (uploads[i].trigger = "none" /\ uploads'[i].trigger # "none") =>
                    /\ uploads[i].pc = "awaiting"
                    /\ uploads'[i].trigger = "pending"
                    /\ uploads'[i].code = 200
                    /\ jobs'[Uuid(i)].status = "training"
              /\ uploads[i].trigger # "none" =>
                    uploads'[i].trigger # "none" /\
                    (uploads'[i].trigger = "pending" => uploads[i].trigger = "pending")
           ]_vars

\* C17 witness: a status query has found the `uploading` record of an upload
\* whose content-store call is in flight, after another upload's trigger was
\* sent.
C17_Witness ==
    /\ lastResp.kind = "status"
    /\ lastResp.code = 200
    /\ lastResp.body.status = "uploading"
    /\ \E i \in 1..Len(uploads) :
          uploads[i].pc = "awaiting" /\ lastResp.key = Uuid(i)
    /\ \E j \in 1..Len(uploads) : uploads[j].trigger = "sent"

C19_WritesOwnJobOnly ==
    [][ /\ \A j \in DOMAIN jobs :
              /\ j \in DOMAIN jobs'
              /\ jobs'[j].id = jobs[j].id
              /\ jobs'[j].email = jobs[j].email
              /\ jobs'[j] # jobs[j] =>
                    /\ \A k \in DOMAIN jobs : k # j => jobs'[k] = jobs[k]
                    /\ \/ \E i \in 1..Len(uploads) :
                             Uuid(i) = j /\ uploads'[i] # uploads[i]
                       \/ \E p \in Payloads : p.jobId = j /\ Callback(p)
        /\ \A j \in DOMAIN jobs' \ DOMAIN jobs :
              /\ jobs'[j].id = j
              /\ \A k \in DOMAIN jobs : jobs'[k] = jobs[k]
              /\ \E i \in 1..Len(uploads) : Uuid(i) = j /\ uploads'[i] # uploads[i]
      ]_vars

\* C19 witness: a callback has just been processed for one of two jobs, and
\* the other, still in `training`, has no result.
C19_Witness ==
    /\ lastResp.kind = "callback"
    /\ \E j, k \in DOMAIN jobs :
          /\ j # k
          /\ jobs[j].result # NoResult
          /\ jobs[k].result = NoResult
          /\ jobs[k].status = "training"
          /\ jobs[k].email = "a@x.io"

\* C20: until a validated upload's handler reads its local copy, the file
\* under its name holds the bytes that request submitted, and the bytes the
\* handler read and sends to the content store are that request's own.
C20_OwnBytes ==
    \A i \in 1..Len(uploads) :
       /\ (uploads[i].pc = "parsed" /\ Validated(uploads[i]))
             => disk[uploads[i].name] = Uuid(i)
       /\ uploads[i].pc = "awaiting" => uploads[i].buf = Uuid(i)

====
